---- MODULE Spec2Model ----
(***************************************************************************)
(* Reference resolution of openapiv3 (src/src/reference.rs):               *)
(*   - SchemaReference parsing and formatting,                             *)
(*   - the ReferenceOr<T> accessors,                                       *)
(*   - the name extractor parse_reference and its three wrappers,          *)
(*   - the four Resolve implementations.                                   *)
(* A string is a sequence of one-character strings, so that split('/'),    *)
(* rsplit_once('/') and strip_prefix are computed, not assumed.            *)
(***************************************************************************)
EXTENDS Integers, Sequences, FiniteSets, TLC

VARIABLES doc, kind, top, container, pc, depth, lookups, compReads, result,
          acc, hist, nameOut

vars == <<doc, kind, top, container, pc, depth, lookups, compReads, result,
          acc, hist, nameOut>>

(***************************************************************************)
(* Bounds of the model.                                                    *)
(***************************************************************************)
\* resolve frames the stack holds on top of the first one
MaxDepth == 3
\* '/'-separated segments appended to a head in the parser inputs
MaxTail == 3
\* '/'-separated segments of a name in a SchemaReference value
MaxNameSegs == 2

(***************************************************************************)
(* Option<T> and Result<T>.                                                *)
(***************************************************************************)
None == [some |-> FALSE]
Some(v) == [some |-> TRUE, val |-> v]
Ok(v) == [tag |-> "Ok", val |-> v]
NoResult == [tag |-> "None"]

(***************************************************************************)
(* String literals of the source, as character sequences.                  *)
(***************************************************************************)
S_hash == <<"#">>
S_components == <<"c","o","m","p","o","n","e","n","t","s">>
S_schemas == <<"s","c","h","e","m","a","s">>
S_properties == <<"p","r","o","p","e","r","t","i","e","s">>
S_responses == <<"r","e","s","p","o","n","s","e","s">>
S_requestBodies == <<"r","e","q","u","e","s","t","B","o","d","i","e","s">>
S_parameters == <<"p","a","r","a","m","e","t","e","r","s">>
S_slash == <<"/">>
S_empty == <<>>
\* "#/components/"
S_prefix == S_hash \o S_slash \o S_components \o S_slash
\* "#/components/schemas/"
S_schemasPrefix == S_prefix \o S_schemas \o S_slash
\* "/properties/"
S_propertiesInfix == S_slash \o S_properties \o S_slash

(***************************************************************************)
(* str::split('/'), str::rsplit_once('/'), str::strip_prefix.              *)
(***************************************************************************)
HasSlash(s) == \E i \in 1..Len(s) : s[i] = "/"

FirstSlash(s) == CHOOSE i \in 1..Len(s) : s[i] = "/" /\ \A j \in 1..(i-1) : s[j] # "/"

LastSlash(s) == CHOOSE i \in 1..Len(s) : s[i] = "/" /\ \A j \in (i+1)..Len(s) : s[j] # "/"

RECURSIVE split(_)
split(s) ==
    IF ~HasSlash(s) THEN <<s>>
    ELSE <<SubSeq(s, 1, FirstSlash(s) - 1)>> \o split(SubSeq(s, FirstSlash(s) + 1, Len(s)))

rsplit_once(s) ==
    IF ~HasSlash(s) THEN None
    ELSE Some([head |-> SubSeq(s, 1, LastSlash(s) - 1),
               name |-> SubSeq(s, LastSlash(s) + 1, Len(s))])

strip_prefix(s, prefix) ==
    IF Len(s) >= Len(prefix) /\ SubSeq(s, 1, Len(prefix)) = prefix
    THEN Some(SubSeq(s, Len(prefix) + 1, Len(s)))
    ELSE None

(***************************************************************************)
(* SchemaReference, its FromStr and its Display.                           *)
(***************************************************************************)
SchemaRef(schema) == [variant |-> "Schema", schema |-> schema]
PropertyRef(schema, property) ==
    [variant |-> "Property", schema |-> schema, property |-> property]

MalformedErr(reference) == [tag |-> "Err", err |-> "Malformed", text |-> reference]

\* a parser that accepts any segment count of at least four
from_str_anyCount(reference) ==
    LET components == split(reference) IN
    IF Len(components) >= 4 /\ Len(components) # 6
       /\ components[1] = S_hash /\ components[2] = S_components
       /\ components[3] = S_schemas
    THEN Ok(SchemaRef(components[4]))
    ELSE IF Len(components) = 6
       /\ components[1] = S_hash /\ components[2] = S_components
       /\ components[3] = S_schemas /\ components[5] = S_properties
    THEN Ok(PropertyRef(components[4], components[6]))
    ELSE MalformedErr(reference)

from_str(reference) ==
    LET components == split(reference) IN
    IF Len(components) = 4
       /\ components[1] = S_hash /\ components[2] = S_components
       /\ components[3] = S_schemas
    THEN Ok(SchemaRef(components[4]))
    ELSE IF Len(components) = 6
       /\ components[1] = S_hash /\ components[2] = S_components
       /\ components[3] = S_schemas /\ components[5] = S_properties
    THEN Ok(PropertyRef(components[4], components[6]))
    ELSE MalformedErr(reference)

\* a formatter that leaves the "properties" segment out
fmt_noInfix(v) ==
    IF v.variant = "Schema" THEN S_schemasPrefix \o v.schema
    ELSE S_schemasPrefix \o v.schema \o S_slash \o v.property

fmt(v) ==
    IF v.variant = "Schema" THEN S_schemasPrefix \o v.schema
    ELSE S_schemasPrefix \o v.schema \o S_propertiesInfix \o v.property

(***************************************************************************)
(* parse_reference and its three wrappers.                                 *)
(***************************************************************************)
InvalidErr(group, reference) ==
    [tag |-> "Err", err |-> "InvalidGroup", group |-> group, text |-> reference]

\* an extractor that splits at the first '/' after the group
parse_reference_prefixOnly(reference, group) ==
    LET pre == strip_prefix(reference, S_prefix \o group \o S_slash) IN
    IF pre.some THEN Ok(pre.val) ELSE InvalidErr(group, reference)

parse_reference(reference, group) ==
    LET sp == rsplit_once(reference) IN
    IF sp.some /\ strip_prefix(sp.val.head, S_prefix) = Some(group)
    THEN Ok(sp.val.name)
    ELSE InvalidErr(group, reference)

get_response_name(reference) == parse_reference(reference, S_responses)

get_request_body_name(reference) == parse_reference(reference, S_requestBodies)

get_parameter_name(reference) == parse_reference(reference, S_parameters)

(***************************************************************************)
(* ReferenceOr<T>: constructors and accessors.                             *)
(***************************************************************************)
ref_(r) == [variant |-> "Reference", reference |-> r]

item(i) == [variant |-> "Item", item |-> i]

schema_ref(r) == [variant |-> "Reference", reference |-> S_schemasPrefix \o r]

into_item(self) == IF self.variant = "Reference" THEN None ELSE Some(self.item)

as_item(self) == IF self.variant = "Reference" THEN None ELSE Some(self.item)

\* an accessor with its two arms exchanged
as_ref_str_swapped(self) ==
    IF self.variant = "Reference" THEN None ELSE Some(S_empty)

as_ref_str(self) ==
    IF self.variant = "Reference" THEN Some(self.reference) ELSE None

as_mut(self) == IF self.variant = "Reference" THEN None ELSE Some(self.item)

(***************************************************************************)
(* The document, as the resolver sees it: an optional components section   *)
(* with four dictionaries, a schema accessor, and the property dictionary  *)
(* of a schema.  IndexMap::get is get.                                     *)
(***************************************************************************)
EmptyMap == <<>>

get(map, key) == IF key \in DOMAIN map THEN Some(map[key]) ELSE None

\* What OpenAPI::schemas() does for a document without components is not
\* fixed by the resolver: it returns a map, so it either has none to give
\* (and panics) or gives an empty one.
SchemasOnMissing == {"panic", "empty"}

schemas(spec, onMissing) ==
    IF spec.components.some
    THEN [panic |-> FALSE, map |-> spec.components.val.schemas]
    ELSE IF onMissing = "panic" THEN [panic |-> TRUE]
    ELSE [panic |-> FALSE, map |-> EmptyMap]

properties(schema) == schema.properties

(***************************************************************************)
(* Diagnoses.                                                              *)
(***************************************************************************)
NoComponentsErr == [tag |-> "Err", err |-> "NoComponents"]

NotFoundErr(reference) == [tag |-> "Err", err |-> "NotFound", reference |-> reference]

ChainErr(reference, target) ==
    [tag |-> "Err", err |-> "Chain", reference |-> reference, target |-> target]

NotObjectErr(reference, schema_name) ==
    [tag |-> "Err", err |-> "NotObject", reference |-> reference,
     schema_name |-> schema_name]

LacksPropertyErr(schema_name, property) ==
    [tag |-> "Err", err |-> "LacksProperty", schema_name |-> schema_name,
     property |-> property]

ExpectPanic == [tag |-> "Panic", msg |-> "was not item so must be ref"]

SchemasPanic == [tag |-> "Panic", msg |-> "schemas() without components"]

(***************************************************************************)
(* One frame of resolve: it either returns, or ends in a call of resolve   *)
(* on another container whose result it returns unchanged.                 *)
(***************************************************************************)
Return(res, looked, reads) ==
    [pc |-> "done", result |-> res, lookups |-> looked, compReads |-> reads]

TailCall(next, looked, reads) ==
    [pc |-> "resolve", container |-> next, lookups |-> looked, compReads |-> reads]

\* entry.as_item().ok_or_else(|| chain error naming entry.as_ref_str())
ItemOrChain(entry, reference) ==
    IF as_item(entry).some THEN Ok(as_item(entry).val)
    ELSE IF as_ref_str(entry).some THEN ChainErr(reference, as_ref_str(entry).val)
    ELSE ExpectPanic

\* a closure whose not-found diagnosis names the schema, not the reference
get_schema_bareName(spec, reference, schema, onMissing) ==
    LET dict == schemas(spec, onMissing) IN
    IF dict.panic THEN [res |-> SchemasPanic, lookups |-> <<>>]
    ELSE LET entry == get(dict.map, schema) IN
         IF ~entry.some
         THEN [res |-> NotFoundErr(schema), lookups |-> << <<"schemas", schema>> >>]
         ELSE [res |-> ItemOrChain(entry.val, fmt(reference)),
               lookups |-> << <<"schemas", schema>> >>]

get_schema(spec, reference, schema, onMissing) ==
    LET dict == schemas(spec, onMissing) IN
    IF dict.panic THEN [res |-> SchemasPanic, lookups |-> <<>>]
    ELSE LET entry == get(dict.map, schema) IN
         IF ~entry.some
         THEN [res |-> NotFoundErr(fmt(reference)),
               lookups |-> << <<"schemas", schema>> >>]
         ELSE [res |-> ItemOrChain(entry.val, fmt(reference)),
               lookups |-> << <<"schemas", schema>> >>]

\* a resolver that takes the property entry as it is, without resolving it
ResolveSchema_noRecurse(self, spec, onMissing) ==
    IF self.variant = "Item" THEN Return(Ok(self.item), <<>>, 0)
    ELSE LET parsed == from_str(self.reference) IN
    IF parsed.tag = "Err" THEN Return(parsed, <<>>, 0)
    ELSE LET reference == parsed.val
             found == get_schema(spec, reference, reference.schema, onMissing)
    IN  IF reference.variant = "Schema" \/ found.res.tag # "Ok"
        THEN Return(found.res, found.lookups, 1)
        ELSE LET props == properties(found.res.val) IN
        IF ~props.some
        THEN Return(NotObjectErr(fmt(reference), reference.schema), found.lookups, 1)
        ELSE LET prop == get(props.val, reference.property)
                 looked == found.lookups \o << <<"properties", reference.property>> >>
        IN  IF ~prop.some
            THEN Return(LacksPropertyErr(reference.schema, reference.property), looked, 1)
            ELSE Return(ItemOrChain(prop.val, fmt(reference)), looked, 1)

ResolveSchema(self, spec, onMissing) ==
    IF self.variant = "Item" THEN Return(Ok(self.item), <<>>, 0)
    ELSE LET parsed == from_str(self.reference) IN
    IF parsed.tag = "Err" THEN Return(parsed, <<>>, 0)
    ELSE LET reference == parsed.val
             found == get_schema(spec, reference, reference.schema, onMissing)
    IN  IF reference.variant = "Schema" \/ found.res.tag # "Ok"
        THEN Return(found.res, found.lookups, 1)
        ELSE LET props == properties(found.res.val) IN
        IF ~props.some
        THEN Return(NotObjectErr(fmt(reference), reference.schema), found.lookups, 1)
        ELSE LET prop == get(props.val, reference.property)
                 looked == found.lookups \o << <<"properties", reference.property>> >>
        IN  IF ~prop.some
            THEN Return(LacksPropertyErr(reference.schema, reference.property), looked, 1)
            ELSE TailCall(prop.val, looked, 1)

ResolveParameter(self, spec) ==
    IF self.variant = "Item" THEN Return(Ok(self.item), <<>>, 0)
    ELSE LET reference == self.reference
             name == get_parameter_name(reference)
    IN  IF name.tag = "Err" THEN Return(name, <<>>, 0)
        ELSE IF ~spec.components.some THEN Return(NoComponentsErr, <<>>, 1)
        ELSE LET param_ref == get(spec.components.val.parameters, name.val)
                 looked == << <<"parameters", name.val>> >>
        IN  IF ~param_ref.some THEN Return(NotFoundErr(reference), looked, 1)
            ELSE Return(ItemOrChain(param_ref.val, reference), looked, 1)

\* a resolver that follows a chained entry one step further
ResolveResponse_followChain(self, spec) ==
    IF self.variant = "Item" THEN Return(Ok(self.item), <<>>, 0)
    ELSE LET reference == self.reference
             name == get_response_name(reference)
    IN  IF name.tag = "Err" THEN Return(name, <<>>, 0)
        ELSE IF ~spec.components.some THEN Return(NoComponentsErr, <<>>, 1)
        ELSE LET response_ref == get(spec.components.val.responses, name.val)
                 looked == << <<"responses", name.val>> >>
        IN  IF ~response_ref.some THEN Return(NotFoundErr(reference), looked, 1)
            ELSE IF response_ref.val.variant = "Item"
            THEN Return(Ok(response_ref.val.item), looked, 1)
            ELSE LET inner == get_response_name(response_ref.val.reference) IN
                 IF inner.tag = "Err" THEN Return(inner, looked, 1)
                 ELSE LET second == get(spec.components.val.responses, inner.val)
                          looked2 == looked \o << <<"responses", inner.val>> >>
                 IN  IF ~second.some
                     THEN Return(NotFoundErr(response_ref.val.reference), looked2, 1)
                     ELSE Return(ItemOrChain(second.val, response_ref.val.reference),
                                 looked2, 1)

ResolveResponse(self, spec) ==
    IF self.variant = "Item" THEN Return(Ok(self.item), <<>>, 0)
    ELSE LET reference == self.reference
             name == get_response_name(reference)
    IN  IF name.tag = "Err" THEN Return(name, <<>>, 0)
        ELSE IF ~spec.components.some THEN Return(NoComponentsErr, <<>>, 1)
        ELSE LET response_ref == get(spec.components.val.responses, name.val)
                 looked == << <<"responses", name.val>> >>
        IN  IF ~response_ref.some THEN Return(NotFoundErr(reference), looked, 1)
            ELSE Return(ItemOrChain(response_ref.val, reference), looked, 1)

\* a resolver that asks for the components section before looking at self
ResolveRequestBody_componentsFirst(self, spec) ==
    IF ~spec.components.some THEN Return(NoComponentsErr, <<>>, 1)
    ELSE IF self.variant = "Item" THEN Return(Ok(self.item), <<>>, 1)
    ELSE LET reference == self.reference
             name == get_request_body_name(reference)
    IN  IF name.tag = "Err" THEN Return(name, <<>>, 1)
        ELSE LET request_body_ref == get(spec.components.val.request_bodies, name.val)
                 looked == << <<"request_bodies", name.val>> >>
        IN  IF ~request_body_ref.some THEN Return(NotFoundErr(reference), looked, 1)
            ELSE Return(ItemOrChain(request_body_ref.val, reference), looked, 1)

ResolveRequestBody(self, spec) ==
    IF self.variant = "Item" THEN Return(Ok(self.item), <<>>, 0)
    ELSE LET reference == self.reference
             name == get_request_body_name(reference)
    IN  IF name.tag = "Err" THEN Return(name, <<>>, 0)
        ELSE IF ~spec.components.some THEN Return(NoComponentsErr, <<>>, 1)
        ELSE LET request_body_ref == get(spec.components.val.request_bodies, name.val)
                 looked == << <<"request_bodies", name.val>> >>
        IN  IF ~request_body_ref.some THEN Return(NotFoundErr(reference), looked, 1)
            ELSE Return(ItemOrChain(request_body_ref.val, reference), looked, 1)

(***************************************************************************)
(* The documents and containers the model draws from.                      *)
(***************************************************************************)
N_A == <<"A">>
N_B == <<"B">>
N_p == <<"p">>
Names == {N_A, N_B}

Kinds == {"schema", "parameter", "response", "requestBody"}

Group(k) ==
    IF k = "parameter" THEN S_parameters
    ELSE IF k = "response" THEN S_responses
    ELSE IF k = "requestBody" THEN S_requestBodies
    ELSE S_schemas

\* "#/components/<group>/<name>"
Pointer(k, name) == S_prefix \o Group(k) \o S_slash \o name
\* "#/components/schemas/<name>/properties/<property>"
PropertyPointer(name, property) ==
    S_schemasPrefix \o name \o S_propertiesInfix \o property

SchemaPointers ==
    {Pointer("schema", n) : n \in Names}
      \cup {PropertyPointer(n, N_p) : n \in Names}
      \cup {Pointer("requestBody", N_A)}

Leaf == [id |-> "leaf", properties |-> None]
Scalar == [id |-> "scalar", properties |-> None]
Object(props) == [id |-> "object", properties |-> Some(props)]

PropertyValues == {item(Leaf)} \cup {ref_(r) : r \in SchemaPointers}

SchemaItems ==
    {Scalar, Object(EmptyMap)} \cup {Object([n \in {N_p} |-> v]) : v \in PropertyValues}

SchemaEntries ==
    {item(s) : s \in SchemaItems} \cup {schema_ref(n) : n \in Names}

SchemaDicts == UNION {[D -> SchemaEntries] : D \in SUBSET Names}

\* the inline value of kind k stored under a name
Stored(k, name) == [kind |-> k, at |-> name]
\* an inline value of kind k held by a caller
Inline(k) == [kind |-> k, at |-> S_empty]

FlatShapes == UNION {[D -> {"item", "ref"}] : D \in SUBSET Names}

FlatDict(k, shape) ==
    [n \in DOMAIN shape |->
        IF shape[n] = "item" THEN item(Stored(k, n)) ELSE ref_(Pointer(k, N_B))]

NoComponentsDoc == [components |-> None]

Docs ==
    {NoComponentsDoc} \cup
    {[components |-> Some([schemas |-> sd,
                           parameters |-> FlatDict("parameter", sh),
                           responses |-> FlatDict("response", sh),
                           request_bodies |-> FlatDict("requestBody", sh)])] :
        sd \in SchemaDicts, sh \in FlatShapes}

Containers(k) ==
    IF k = "schema"
    THEN {item(Leaf), item(Object(EmptyMap))} \cup {ref_(r) : r \in SchemaPointers}
    ELSE {item(Inline(k))}
           \cup {ref_(Pointer(k, n)) : n \in Names}
           \cup {ref_(Pointer(k, N_A) \o S_slash \o N_B), ref_(Pointer("schema", N_A))}

NoContainer == [variant |-> "None"]
NoAccess == [done |-> FALSE]

(***************************************************************************)
(* Resolution as a state machine: a caller takes a container of some kind  *)
(* and calls resolve on it against the document; each step is one frame.   *)
(***************************************************************************)
Init ==
    /\ doc \in Docs
    /\ kind = "none"
    /\ top = NoContainer
    /\ container = NoContainer
    /\ pc = "idle"
    /\ depth = 0
    /\ lookups = <<>>
    /\ compReads = 0
    /\ result = NoResult
    /\ acc = NoAccess
    /\ hist = <<>>
    /\ nameOut = NoResult

Call(k, c) ==
    /\ pc = "idle"
    /\ kind' = k
    /\ top' = c
    /\ container' = c
    /\ pc' = "resolve"
    /\ UNCHANGED <<doc, depth, lookups, compReads, result, acc, hist, nameOut>>

\* the frame f ends: with a result, or in a call of resolve on f.container
Frame(f) ==
    /\ lookups' = lookups \o f.lookups
    /\ compReads' = compReads + f.compReads
    /\ IF f.pc = "done"
       THEN /\ pc' = "done"
            /\ result' = f.result
            /\ UNCHANGED <<container, depth>>
       ELSE IF depth < MaxDepth
       THEN /\ pc' = "resolve"
            /\ container' = f.container
            /\ depth' = depth + 1
            /\ UNCHANGED result
       ELSE /\ pc' = "overflow"
            /\ UNCHANGED <<container, depth, result>>
    /\ UNCHANGED <<doc, kind, top, acc, hist, nameOut>>

StepSchema ==
    /\ pc = "resolve" /\ kind = "schema"
    /\ \E onMissing \in SchemasOnMissing : Frame(ResolveSchema(container, doc, onMissing))

StepParameter ==
    /\ pc = "resolve" /\ kind = "parameter"
    /\ Frame(ResolveParameter(container, doc))

StepResponse ==
    /\ pc = "resolve" /\ kind = "response"
    /\ Frame(ResolveResponse(container, doc))

StepRequestBody ==
    /\ pc = "resolve" /\ kind = "requestBody"
    /\ Frame(ResolveRequestBody(container, doc))

\* a caller applies the four accessors to a container
Access(c) ==
    /\ pc = "idle"
    /\ acc' = [done |-> TRUE, self |-> c, into_item |-> into_item(c),
               as_item |-> as_item(c), as_ref_str |-> as_ref_str(c),
               as_mut |-> as_mut(c)]
    /\ pc' = "accessed"
    /\ UNCHANGED <<doc, kind, top, container, depth, lookups, compReads, result,
                   hist, nameOut>>

Next ==
    \/ \E k \in Kinds : \E c \in Containers(k) : Call(k, c)
    \/ StepSchema
    \/ StepParameter
    \/ StepResponse
    \/ StepRequestBody
    \/ \E k \in Kinds : \E c \in Containers(k) : Access(c)

Spec == Init /\ [][Next]_vars

(***************************************************************************)
(* The parsers and the formatter, applied to inputs drawn from bounded     *)
(* sets: hist is the chain input, parse, format, parse.                    *)
(***************************************************************************)
RECURSIVE JoinSlash(_)
\* the segments of a sequence, each preceded by '/'
JoinSlash(segs) ==
    IF segs = <<>> THEN S_empty
    ELSE S_slash \o Head(segs) \o JoinSlash(Tail(segs))

SeqsUpTo(S, n) == UNION {[1..m -> S] : m \in 0..n}

Heads ==
    {S_hash \o S_slash \o S_components \o S_slash \o g :
        g \in {S_schemas, S_requestBodies, S_responses, S_parameters}}
      \cup {S_hash \o S_slash \o S_components,
            S_components \o S_slash \o S_schemas,
            S_slash \o S_hash \o S_slash \o S_components \o S_slash \o S_schemas,
            S_empty}

TailSegments == {N_A, N_p, S_empty, S_properties}

InputStrings == {h \o JoinSlash(t) : h \in Heads, t \in SeqsUpTo(TailSegments, MaxTail)}

NameStrings ==
    {SubSeq(JoinSlash(t), 2, Len(JoinSlash(t))) :
        t \in SeqsUpTo(TailSegments, MaxNameSegs) \ {<<>>}}

SchemaReferences ==
    {SchemaRef(x) : x \in NameStrings}
      \cup {PropertyRef(x, y) : x \in NameStrings, y \in NameStrings}

Str(s) == [t |-> "str", s |-> s]
Val(v) == [t |-> "val", v |-> v]
Failed(e) == [t |-> "err", e |-> e]

InitParse ==
    /\ doc = NoComponentsDoc
    /\ kind = "none"
    /\ top = NoContainer
    /\ container = NoContainer
    /\ pc = "idle"
    /\ depth = 0
    /\ lookups = <<>>
    /\ compReads = 0
    /\ result = NoResult
    /\ acc = NoAccess
    /\ hist \in {<<Str(s)>> : s \in InputStrings} \cup {<<Val(v)>> : v \in SchemaReferences}
    /\ nameOut = NoResult

Last(h) == h[Len(h)]

FromStr ==
    /\ nameOut = NoResult
    /\ Len(hist) < 4
    /\ Last(hist).t = "str"
    /\ LET r == from_str(Last(hist).s) IN
       hist' = Append(hist, IF r.tag = "Ok" THEN Val(r.val) ELSE Failed(r))
    /\ UNCHANGED <<doc, kind, top, container, pc, depth, lookups, compReads, result,
                   acc, nameOut>>

Fmt ==
    /\ Len(hist) < 4
    /\ Last(hist).t = "val"
    /\ hist' = Append(hist, Str(fmt(Last(hist).v)))
    /\ UNCHANGED <<doc, kind, top, container, pc, depth, lookups, compReads, result,
                   acc, nameOut>>

Extract(k, r) ==
    /\ nameOut = NoResult
    /\ Len(hist) = 1
    /\ hist[1].t = "str"
    /\ nameOut' = [kind |-> k, res |-> r]
    /\ UNCHANGED <<doc, kind, top, container, pc, depth, lookups, compReads, result,
                   acc, hist>>

GetResponseName == Extract("response", get_response_name(hist[1].s))

GetRequestBodyName == Extract("requestBody", get_request_body_name(hist[1].s))

GetParameterName == Extract("parameter", get_parameter_name(hist[1].s))

NextParse ==
    \/ FromStr
    \/ Fmt
    \/ GetResponseName
    \/ GetRequestBodyName
    \/ GetParameterName

SpecParse == InitParse /\ [][NextParse]_vars

(***************************************************************************)
(* Vocabulary of the properties.                                           *)
(***************************************************************************)
NoSlash(s) == \A i \in 1..Len(s) : s[i] # "/"

DictName(k) ==
    IF k = "parameter" THEN "parameters"
    ELSE IF k = "response" THEN "responses"
    ELSE IF k = "requestBody" THEN "request_bodies"
    ELSE "schemas"

\* the dictionary of kind k in a document that has a components section
Dict(k, d) ==
    IF k = "parameter" THEN d.components.val.parameters
    ELSE IF k = "response" THEN d.components.val.responses
    ELSE IF k = "requestBody" THEN d.components.val.request_bodies
    ELSE d.components.val.schemas

\* the pointer r, read as one of kind k, names the dictionary entry n
PointsAt(k, r, n) ==
    \/ r = Pointer(k, n)
    \/ k = "schema" /\ r = PropertyPointer(n, N_p)

WellFormed(k, r) == \E n \in Names : PointsAt(k, r, n)

\* resolve, frame after frame, cut off after fuel calls of itself
RECURSIVE Outcome(_, _, _)
Outcome(c, d, fuel) ==
    LET f == ResolveSchema(c, d, "empty") IN
    IF f.pc = "done" THEN f.result
    ELSE IF fuel = 0 THEN NoResult
    ELSE Outcome(f.container, d, fuel - 1)

(***************************************************************************)
(* C1.  Chain rejection: in each of the four kinds, a frame of resolve on  *)
(* a Reference whose well-formed pointer names an entry that is present    *)
(* and is itself a Reference ends with the chained-reference diagnosis     *)
(* naming the pointer of the frame and the pointer found in the entry,     *)
(* and the entry is the only one the frame's own dictionary is asked for:  *)
(* the target of the entry is not looked up.                               *)
(***************************************************************************)
C1_ChainRejected ==
    (pc = "done" /\ doc.components.some /\ container.variant = "Reference") =>
        \A n \in Names :
            ( /\ PointsAt(kind, container.reference, n)
              /\ n \in DOMAIN Dict(kind, doc)
              /\ Dict(kind, doc)[n].variant = "Reference" )
            => /\ result = ChainErr(container.reference, Dict(kind, doc)[n].reference)
               /\ Len(lookups) = 2 * depth + 1
               /\ Last(lookups) = <<DictName(kind), n>>

C1_Witness ==
    /\ pc = "done" /\ depth = 0 /\ kind = "schema"
    /\ top = schema_ref(N_A)
    /\ doc.components.some
    /\ Names \subseteq DOMAIN doc.components.val.schemas
    /\ doc.components.val.schemas[N_A] = schema_ref(N_B)
    /\ doc.components.val.schemas[N_B] = item(Scalar)
    /\ result = ChainErr(Pointer("schema", N_A), Pointer("schema", N_B))
    /\ lookups = << <<"schemas", N_A>> >>

(***************************************************************************)
(* C2.  Item short-circuit: a frame of resolve on Item(v) returns exactly  *)
(* v in one step, whatever the document is, and looks nothing up: neither  *)
(* a dictionary nor the components section is read.                        *)
(***************************************************************************)
C2_ItemShortCircuit ==
    [][ (pc = "resolve" /\ container.variant = "Item") =>
            /\ pc' = "done"
            /\ result' = Ok(container.item)
            /\ lookups' = lookups
            /\ compReads' = compReads ]_vars

C2_Witness ==
    /\ pc = "done" /\ depth = 0 /\ kind = "requestBody"
    /\ top = item(Inline("requestBody"))
    /\ ~doc.components.some
    /\ result = Ok(Inline("requestBody"))
    /\ lookups = <<>> /\ compReads = 0

(***************************************************************************)
(* C3.  Bounded termination: resolve re-enters itself at most once and     *)
(* never exhausts the stack, whatever the reference graph of the document. *)
(***************************************************************************)
C3_BoundedReentry == depth <= 1 /\ pc # "overflow"

(***************************************************************************)
(* C4.  Property traversal: resolving "#/components/schemas/S/properties/P"*)
(* when S is an inline schema gives the shape-mismatch diagnosis naming S  *)
(* if S has no property dictionary, the lacks-property diagnosis if the    *)
(* dictionary has no P, and otherwise the outcome of resolving P's own     *)
(* container against the same document: s itself when P maps to Item(s).   *)
(***************************************************************************)
C4_PropertyTraversal ==
    (pc = "done" /\ kind = "schema" /\ doc.components.some /\ top.variant = "Reference") =>
        \A S \in Names :
            ( /\ top.reference = PropertyPointer(S, N_p)
              /\ S \in DOMAIN doc.components.val.schemas
              /\ doc.components.val.schemas[S].variant = "Item" )
            => LET s == doc.components.val.schemas[S].item IN
               IF ~s.properties.some
               THEN result = NotObjectErr(top.reference, S)
               ELSE IF N_p \notin DOMAIN s.properties.val
               THEN result = LacksPropertyErr(S, N_p)
               ELSE IF s.properties.val[N_p].variant = "Item"
               THEN result = Ok(s.properties.val[N_p].item)
               ELSE result = Outcome(s.properties.val[N_p], doc, MaxDepth)

C4_Witness ==
    /\ pc = "done" /\ depth = 1 /\ kind = "schema"
    /\ top = ref_(PropertyPointer(N_A, N_p))
    /\ container = item(Leaf)
    /\ result = Ok(Leaf)
    /\ lookups = << <<"schemas", N_A>>, <<"properties", N_p>> >>

(***************************************************************************)
(* C5.  Missing components: in each of the four kinds, resolving a         *)
(* Reference with a well-formed pointer against a document without a       *)
(* components section fails with the no-components diagnosis, and a        *)
(* malformed pointer is diagnosed before the components are asked for.     *)
(***************************************************************************)
C5_MissingComponents ==
    (pc = "done" /\ depth = 0 /\ top.variant = "Reference") =>
        /\ (WellFormed(kind, top.reference) /\ ~doc.components.some)
              => result = NoComponentsErr
        /\ ~WellFormed(kind, top.reference)
              => /\ result \in {MalformedErr(top.reference),
                                InvalidErr(Group(kind), top.reference)}
                 /\ compReads = 0

(***************************************************************************)
(* C6.  Unknown name: in each of the four kinds, a frame of resolve on a   *)
(* Reference whose well-formed pointer names an entry the dictionary of a  *)
(* document with components does not have fails with the unknown-name      *)
(* diagnosis naming the whole pointer; when the entry is present as        *)
(* Item(v) and the pointer is not a property pointer the frame returns v;  *)
(* and a value is returned only for an inline container or a present name. *)
(***************************************************************************)
C6_UnknownName ==
    (pc = "done" /\ doc.components.some) =>
        /\ container.variant = "Reference" =>
             \A n \in Names :
                /\ (PointsAt(kind, container.reference, n) /\ n \notin DOMAIN Dict(kind, doc))
                      => result = NotFoundErr(container.reference)
                /\ ( /\ container.reference = Pointer(kind, n)
                     /\ n \in DOMAIN Dict(kind, doc)
                     /\ Dict(kind, doc)[n].variant = "Item" )
                      => result = Ok(Dict(kind, doc)[n].item)
        /\ result.tag = "Ok" =>
             \/ container = item(result.val)
             \/ /\ container.variant = "Reference"
                /\ \E n \in DOMAIN Dict(kind, doc) :
                      /\ container.reference = Pointer(kind, n)
                      /\ Dict(kind, doc)[n] = item(result.val)

C6_Witness ==
    /\ pc = "done" /\ depth = 0 /\ kind = "schema"
    /\ top = schema_ref(N_B)
    /\ doc.components.some
    /\ DOMAIN doc.components.val.schemas = {}
    /\ result = NotFoundErr(Pointer("schema", N_B))

NamesOf(v) == IF v.variant = "Schema" THEN {v.schema} ELSE {v.schema, v.property}

StartsWith(s, pre) == Len(s) >= Len(pre) /\ SubSeq(s, 1, Len(pre)) = pre

\* what follows "#/components/schemas/" in s
AfterSchemas(s) == SubSeq(s, Len(S_schemasPrefix) + 1, Len(s))

\* the name before and the name after the "/properties/" that starts at k + 1
NameBefore(rest, k) == SubSeq(rest, 1, k)
NameAfter(rest, k) == SubSeq(rest, k + Len(S_propertiesInfix) + 1, Len(rest))

\* the places where rest is <x>/properties/<y> with x and y free of '/'
PropertyCuts(rest) ==
    {k \in 0..(Len(rest) - Len(S_propertiesInfix)) :
        /\ SubSeq(rest, k + 1, k + Len(S_propertiesInfix)) = S_propertiesInfix
        /\ NoSlash(NameBefore(rest, k))
        /\ NoSlash(NameAfter(rest, k))}

(***************************************************************************)
(* C8.  Parse-reject.  As stated: parsing succeeds only for the two shapes *)
(* and fails when a trailing slash leaves an empty segment, as in          *)
(* "#/components/schemas/" and "#/components/schemas/Foo/properties/":     *)
(* the names x and y of a parsed string are never empty.                   *)
(***************************************************************************)
C8_ParseRejectEmpty ==
    (Len(hist) >= 2 /\ hist[1].t = "str") =>
        LET s == hist[1].s
            rest == AfterSchemas(s)
        IN  /\ hist[2].t = "val" =>
                 /\ StartsWith(s, S_schemasPrefix)
                 /\ \/ /\ NoSlash(rest) /\ rest # S_empty
                       /\ hist[2].v = SchemaRef(rest)
                    \/ \E k \in PropertyCuts(rest) :
                          /\ NameBefore(rest, k) # S_empty
                          /\ NameAfter(rest, k) # S_empty
                          /\ hist[2].v = PropertyRef(NameBefore(rest, k), NameAfter(rest, k))
            /\ hist[2].t # "val" => hist[2] = Failed(MalformedErr(s))

(***************************************************************************)
(* C8, amended.  Parsing succeeds exactly for "#/components/schemas/<x>"   *)
(* (giving Schema{x}) and "#/components/schemas/<x>/properties/<y>"        *)
(* (giving Property{x, y}) where x and y hold no '/' and may be empty;     *)
(* every other string fails with the malformed-reference error.  So        *)
(* "#/components/schemas/" parses as Schema{""}.                           *)
(***************************************************************************)
C8_ParseReject ==
    (Len(hist) >= 2 /\ hist[1].t = "str") =>
        LET s == hist[1].s
            rest == AfterSchemas(s)
        IN  IF StartsWith(s, S_schemasPrefix) /\ NoSlash(rest)
            THEN hist[2] = Val(SchemaRef(rest))
            ELSE IF StartsWith(s, S_schemasPrefix) /\ PropertyCuts(rest) # {}
            THEN \E k \in PropertyCuts(rest) :
                    hist[2] = Val(PropertyRef(NameBefore(rest, k), NameAfter(rest, k)))
            ELSE hist[2] = Failed(MalformedErr(s))

C8_Witness ==
    /\ Len(hist) = 2
    /\ hist[1] = Str(S_schemasPrefix \o N_A \o S_propertiesInfix)
    /\ hist[2] = Val(PropertyRef(N_A, S_empty))

(***************************************************************************)
(* C9.  Accessors: into_item, as_item and as_mut give the item of an Item  *)
(* and nothing for a Reference; as_ref_str gives the pointer text of a     *)
(* Reference and nothing for an Item; so exactly one of as_item and        *)
(* as_ref_str is present, and the expect on as_ref_str in the resolvers    *)
(* never panics.                                                           *)
(***************************************************************************)
C9_Accessors ==
    /\ acc.done =>
         /\ acc.self.variant = "Item" =>
              /\ acc.into_item = Some(acc.self.item)
              /\ acc.as_item = Some(acc.self.item)
              /\ acc.as_mut = Some(acc.self.item)
              /\ acc.as_ref_str = None
         /\ acc.self.variant = "Reference" =>
              /\ acc.into_item = None
              /\ acc.as_item = None
              /\ acc.as_mut = None
              /\ acc.as_ref_str = Some(acc.self.reference)
         /\ acc.as_item.some # acc.as_ref_str.some
    /\ result # ExpectPanic

C9_Witness ==
    /\ acc.done
    /\ acc.self = ref_(Pointer("parameter", N_A))
    /\ acc.as_item = None
    /\ acc.as_ref_str = Some(Pointer("parameter", N_A))

(***************************************************************************)
(* C10.  Name extraction: for each of the three groups, the extractor      *)
(* succeeds exactly on the strings "#/components/<group>/<name>" whose     *)
(* name holds no '/' (the head before the last '/' is                      *)
(* "#/components/<group>"), returning the name; every other string fails   *)
(* with the invalid-reference error naming the group and the string.       *)
(***************************************************************************)
C10_NameExtraction ==
    nameOut # NoResult =>
        LET s == hist[1].s
            g == Group(nameOut.kind)
            pre == S_prefix \o g \o S_slash
        IN  IF /\ Len(s) >= Len(pre)
               /\ SubSeq(s, 1, Len(pre)) = pre
               /\ NoSlash(SubSeq(s, Len(pre) + 1, Len(s)))
            THEN nameOut.res = Ok(SubSeq(s, Len(pre) + 1, Len(s)))
            ELSE nameOut.res = InvalidErr(g, s)

C10_Witness ==
    /\ nameOut = [kind |-> "requestBody", res |-> Ok(N_A)]
    /\ hist = <<Str(Pointer("requestBody", N_A))>>

====
